---- MODULE Spec2Model ----
(***************************************************************************)
(* Model of src/main.py: the bajadoc extraction pipeline (Config,          *)
(* Extractor, Parser, cleanup) and the Parser's text helpers.              *)
(*                                                                         *)
(* Text is a sequence of tokens.  A token is one character ("&", "#",      *)
(* "0", "<", ...) or a run of characters that the regular expressions of   *)
(* the program treat alike (a tag name, an entity name such as "amp").     *)
(***************************************************************************)
EXTENDS Integers, Sequences, FiniteSets, TLC

\* ------------------------------------------------------------------ bounds
MaxLen == 5
MaxSummaryLen == 102
MaxJars == 2
NumPkgs == 2
NumClasses == 2
MaxFaults == 2
MaxTail == 2
MaxMembers == 1

\* ------------------------------------------------------- program constants
\* summary[:100] in Parser.run
TruncLen == 100

\* ------------------------------------------------------------------ tokens
None == "None"
\* an absent text (Python's None where a string is expected)
NoText == <<None>>
\* an absent element (what Element.find returns when nothing matches)
NoElement == [tag |-> None]
DQ == "\""
SQ == "'"
NL == "\n"
\* U+FFFD, what html.unescape yields for a reference to codepoint zero
UFFFD == "U+FFFD"
Ellipsis == <<".", ".", ".">>
UnknownType == "Unknown"
VoidType == "void"

WS == {" ", NL}
\* characters a named character reference cannot contain:
\* [^\t\n\f <&#;] in html._charref
NameStop == {" ", NL, "<", "&", "#", ";"}

Min(a, b) == IF a < b THEN a ELSE b

Lower(t) == IF t = "SEE" THEN "see" ELSE IF t = "REF" THEN "ref" ELSE t

RECURSIVE Flatten(_)
Flatten(ss) == IF ss = <<>> THEN <<>> ELSE Head(ss) \o Flatten(Tail(ss))

\* the number of leading tokens of s, from position i on, that lie in S
RECURSIVE RunLen(_, _, _)
RunLen(s, i, S) ==
  IF i <= Len(s) /\ s[i] \in S THEN 1 + RunLen(s, i + 1, S) ELSE 0

\* the number of leading tokens of s, from position i on, that lie outside S
RECURSIVE RunLenNot(_, _, _)
RunLenNot(s, i, S) ==
  IF i <= Len(s) /\ s[i] \notin S THEN 1 + RunLenNot(s, i + 1, S) ELSE 0

\* ------------------------------------------------------------ html.unescape
\* html.unescape at position i of s, where s[i] = "&": <<replacement, next>>,
\* the text that replaces the reference and the position after it; a "&"
\* that starts no reference is copied.  Alternatives in the order of
\* html._charref: #[0-9]+;?  |  #[xX][0-9a-fA-F]+;?  |  [^\t\n\f <&#;]{1,32};?
\* The digits of the alphabet are "0"; "amp" starts with the hex digit a.
CharRef(s, i) ==
  LET n == Len(s)
      at(k) == IF k <= n THEN s[k] ELSE None
      semi(k) == IF at(k) = ";" THEN 1 ELSE 0
      dec == RunLen(s, i + 2, {"0"})
      hex == RunLen(s, i + 3, {"0"})
      name == RunLenNot(s, i + 1, NameStop)
      entity(t) == IF t = "amp" THEN "&" ELSE IF t = "lt" THEN "<" ELSE ">"
  IN  IF at(i + 1) = "#" /\ dec >= 1
        THEN <<(<<UFFFD>>), i + 2 + dec + semi(i + 2 + dec)>>
      ELSE IF at(i + 1) = "#" /\ at(i + 2) \in {"x", "X"} /\ at(i + 3 + hex) = "amp"
        \* &#x0..0a followed by mp: codepoint 10, a line feed
        THEN <<(<<NL, "mp">>), i + 4 + hex>>
      ELSE IF at(i + 1) = "#" /\ at(i + 2) \in {"x", "X"} /\ hex >= 1
        THEN <<(<<UFFFD>>), i + 3 + hex + semi(i + 3 + hex)>>
      ELSE IF name >= 1 /\ at(i + 1) \in {"amp", "lt", "gt"}
        \* the name itself, or its longest prefix in the table
        THEN IF name = 1
               THEN <<(<<entity(at(i + 1))>>), i + 2 + semi(i + 2)>>
               ELSE <<(<<entity(at(i + 1))>>), i + 2>>
      ELSE <<(<<"&">>), i + 1>>

RECURSIVE UnescapeFrom(_, _)
UnescapeFrom(s, i) ==
  IF i > Len(s) THEN <<>>
  ELSE IF s[i] = "&"
    THEN LET r == CharRef(s, i) IN r[1] \o UnescapeFrom(s, r[2])
  ELSE <<s[i]>> \o UnescapeFrom(s, i + 1)

HtmlUnescape(s) == UnescapeFrom(s, 1)

\* ------------------------------------------------- re.sub(r'&#[xX]?0+;', '')
\* the length of the match of &#[xX]?0+; at position i of s, 0 when none
ZeroRefLen(s, i) ==
  LET n == Len(s)
      at(k) == IF k <= n THEN s[k] ELSE None
      x == IF at(i + 2) \in {"x", "X"} THEN 1 ELSE 0
      z == RunLen(s, i + 2 + x, {"0"})
  IN  IF at(i) = "&" /\ at(i + 1) = "#" /\ z >= 1 /\ at(i + 2 + x + z) = ";"
        THEN 3 + x + z
        ELSE 0

RECURSIVE ZeroStripFrom(_, _)
ZeroStripFrom(s, i) ==
  IF i > Len(s) THEN <<>>
  ELSE IF ZeroRefLen(s, i) > 0 THEN ZeroStripFrom(s, i + ZeroRefLen(s, i))
  ELSE <<s[i]>> \o ZeroStripFrom(s, i + 1)

ZeroStrip(s) == ZeroStripFrom(s, 1)

\* ------------------------------------------------------------- _clean_text
\* The input alphabet of the references is "&", "#", "x", "X", "0", ";",
\* "amp", "lt", "gt" and plain text "t"; "mp" and U+FFFD only come out.

Quotes == {DQ, SQ}

IsCloseSee(s, k) ==
  /\ k + 3 <= Len(s)
  /\ s[k] = "<" /\ s[k + 1] = "/" /\ Lower(s[k + 2]) = "see" /\ s[k + 3] = ">"

\* where the label that starts at ls ends: the first </see> at or after ls
\* (the label's .*? is not greedy), 0 when there is none
LabelEnd(s, ls) ==
  LET ends == {k \in ls..Len(s) : IsCloseSee(s, k)}
  IN  IF ends = {} THEN 0 ELSE CHOOSE k \in ends : \A m \in ends : k <= m

\* with the target closed by the quote at te: where the label starts, 0 when
\* no  \s*>  follows the quote
LabelStart(s, te) ==
  LET w == RunLen(s, te + 1, WS)
  IN  IF te + 1 + w <= Len(s) /\ s[te + 1 + w] = ">" THEN te + 2 + w ELSE 0

\* the match of  <see\s+ref=["'](.*?)["']\s*>(.*?)</see>  (IGNORECASE, DOTALL)
\* that starts at position i of s
SeeMatch(s, i) ==
  LET n == Len(s)
      at(k) == IF k <= n THEN s[k] ELSE None
      w == RunLen(s, i + 2, WS)
      j == i + 2 + w
      ts == j + 3
      closes == {te \in ts..n :
                   /\ s[te] \in Quotes
                   /\ LabelStart(s, te) > 0
                   /\ LabelEnd(s, LabelStart(s, te)) > 0}
      te == CHOOSE k \in closes : \A m \in closes : k <= m
      ls == LabelStart(s, te)
      le == LabelEnd(s, ls)
  IN  IF /\ at(i) = "<" /\ Lower(at(i + 1)) = "see" /\ w >= 1
         /\ Lower(at(j)) = "ref" /\ at(j + 1) = "=" /\ at(j + 2) \in Quotes
         /\ closes # {}
        THEN [ok |-> TRUE, target |-> SubSeq(s, ts, te - 1),
              label |-> SubSeq(s, ls, le - 1), next |-> le + 4]
        ELSE [ok |-> FALSE, target |-> <<>>, label |-> <<>>, next |-> i + 1]

\* str.strip()
RECURSIVE LStrip(_)
LStrip(s) == IF s # <<>> /\ Head(s) \in WS THEN LStrip(Tail(s)) ELSE s

RECURSIVE RStrip(_)
RStrip(s) ==
  IF s # <<>> /\ s[Len(s)] \in WS THEN RStrip(SubSeq(s, 1, Len(s) - 1)) ELSE s

Strip(s) == RStrip(LStrip(s))

\* " ".join(label.split()) on text without leading white space
RECURSIVE Collapse(_)
Collapse(s) ==
  IF s = <<>> THEN <<>>
  ELSE IF Head(s) \in WS THEN <<" ">> \o Collapse(LStrip(s))
  ELSE <<Head(s)>> \o Collapse(Tail(s))

JoinSplit(s) == Collapse(Strip(s))

SpanOpen == "<span class=\"doc-link\" data-ref=\""
SpanMid == "\">"
SpanClose == "</span>"

replace_link(target, label) ==
  LET joined == JoinSplit(label)
      shown == IF Strip(joined) = <<>> THEN target ELSE joined
  IN  <<SpanOpen>> \o target \o <<SpanMid>> \o shown \o <<SpanClose>>

RECURSIVE SeeSubFrom(_, _)
SeeSubFrom(s, i) ==
  IF i > Len(s) THEN <<>>
  ELSE LET m == SeeMatch(s, i)
       IN  IF m.ok
             THEN replace_link(m.target, m.label) \o SeeSubFrom(s, m.next)
             ELSE <<s[i]>> \o SeeSubFrom(s, i + 1)

\* the steps of _clean_text before the final strip, in the code's order
Decoded(text) == HtmlUnescape(text)

_clean_text(text) ==
  IF text = NoText \/ text = <<>> THEN <<>>
  ELSE Strip(SeeSubFrom(ZeroStrip(Decoded(text)), 1))

\* ------------------------------------------------ xml.etree.ElementTree
\* An element is [tag, attrib, text, children, tail]: attrib a sequence of
\* <<name, value>> pairs, text and tail token sequences (<<>> when absent),
\* children a sequence of elements.

Elem(tag, attrib, text, children, tail) ==
  [tag |-> tag, attrib |-> attrib, text |-> text, children |-> children,
   tail |-> tail]

\* Element.findall(name), name a tag
findall(element, name) == SelectSeq(element.children, LAMBDA c : c.tag = name)

\* Element.find(name)
find(element, name) ==
  IF findall(element, name) = <<>> THEN NoElement
  ELSE Head(findall(element, name))

\* Element.findall("outer/inner")
findall2(element, outer, inner) ==
  LET outs == findall(element, outer)
  IN  Flatten([i \in 1..Len(outs) |-> findall(outs[i], inner)])

\* Element.find("outer/inner")
find2(element, outer, inner) ==
  IF findall2(element, outer, inner) = <<>> THEN NoElement
  ELSE Head(findall2(element, outer, inner))

\* Element.get(key, default)
get(element, key, default) ==
  LET hits == SelectSeq(element.attrib, LAMBDA kv : kv[1] = key)
  IN  IF hits = <<>> THEN default ELSE Head(hits)[2]

\* Element.text: None when the element has no text
TextOf(element) == IF element.text = <<>> THEN NoText ELSE element.text

\* ElementTree._escape_cdata
RECURSIVE EscapeCdata(_)
EscapeCdata(s) ==
  IF s = <<>> THEN <<>>
  ELSE (IF Head(s) = "&" THEN <<"&", "amp", ";">>
        ELSE IF Head(s) = "<" THEN <<"&", "lt", ";">>
        ELSE IF Head(s) = ">" THEN <<"&", "gt", ";">>
        ELSE <<Head(s)>>) \o EscapeCdata(Tail(s))

SerializeAttrib(attrib) ==
  Flatten([i \in 1..Len(attrib) |->
             <<" ", attrib[i][1], "=", DQ, attrib[i][2], DQ>>])

\* ET.tostring(element, encoding='unicode'): the element's own tags, its
\* content, and the text that follows its closing tag (its tail)
RECURSIVE tostring(_)
tostring(e) ==
  LET inner == EscapeCdata(e.text)
               \o Flatten([i \in 1..Len(e.children) |-> tostring(e.children[i])])
  IN  (IF e.text = <<>> /\ e.children = <<>>
         THEN <<"<", e.tag>> \o SerializeAttrib(e.attrib) \o <<" ", "/", ">">>
         ELSE <<"<", e.tag>> \o SerializeAttrib(e.attrib) \o <<">">> \o inner
              \o <<"<", "/", e.tag, ">">>)
      \o EscapeCdata(e.tail)

\* ------------------------------------------------------- _get_full_content
\* re.search(r'^<[^>]+>(.*)</[^>]+>$', raw_xml, re.DOTALL): whether it matches,
\* and group 1.  $ matches at the end of the text and
\* before a line feed that ends it; (.*) is greedy.
InnerMatch(raw) ==
  LET n == Len(raw)
      gts == {k \in 1..n : raw[k] = ">"}
      g == CHOOSE k \in gts : \A m \in gts : k <= m
      ends == {n} \cup (IF n > 0 /\ raw[n] = NL THEN {n - 1} ELSE {})
      \* the closing tag </[^>]+> that starts at p ends at the first ">"
      closeEnd(p) == CHOOSE k \in gts : k > p + 1 /\ \A m \in gts : m > p + 1 => k <= m
      opens == {p \in 1..n :
                  /\ p > g /\ p + 3 <= n
                  /\ raw[p] = "<" /\ raw[p + 1] = "/"
                  /\ raw[p + 2] # ">"
                  /\ \E k \in gts : k > p + 1
                  /\ closeEnd(p) \in ends}
      p == CHOOSE k \in opens : \A m \in opens : m <= k
  IN  IF n >= 3 /\ raw[1] = "<" /\ gts # {} /\ g >= 3 /\ opens # {}
        THEN [ok |-> TRUE, group |-> SubSeq(raw, g + 1, p - 1)]
        ELSE [ok |-> FALSE, group |-> <<>>]

_get_full_content(element, tag_name) ==
  LET child == find(element, tag_name)
      raw_xml == tostring(child)
  IN  IF child = NoElement THEN <<>>
      ELSE IF InnerMatch(raw_xml).ok THEN InnerMatch(raw_xml).group
      ELSE raw_xml

\* what the claim of _get_full_content calls the child's inner markup
InnerMarkup(child) ==
  EscapeCdata(child.text)
  \o Flatten([i \in 1..Len(child.children) |-> tostring(child.children[i])])

\* ---------------------------------------------------------- _safe_parse_xml
\* A document file is [readable, raw, wellformed, root]: raw is text of the
\* file that lies in an element the Parser does not read, wellformed tells
\* whether the rest of the file is well-formed XML, root is its root element.
\* A "&" left in raw after the pre-pass starts no reference XML accepts (the
\* alphabet of raw is "&", "#", "x", "0", ";"), so ET.fromstring raises
\* ParseError on it.
Doc(readable, raw, wellformed, root) ==
  [readable |-> readable, raw |-> raw, wellformed |-> wellformed, root |-> root]

Parses(content, wellformed) ==
  wellformed /\ \A k \in 1..Len(content) : content[k] # "&"

_safe_parse_xml(doc) ==
  IF ~doc.readable THEN NoElement
  ELSE IF Parses(ZeroStrip(doc.raw), doc.wellformed) THEN doc.root
  ELSE NoElement

\* ------------------------------------------------------------ _extract_tags
_extract_tags(element) ==
  LET tags == findall(element, "tag")
  IN  [i \in 1..Len(tags) |->
         [name |-> get(tags[i], "name", None), text |-> TextOf(tags[i])]]

\* ---------------------------------------------------------- _extract_params
_extract_params(element) ==
  LET params == findall(element, "parameter")
      typeOf(param) == IF find(param, "type") # NoElement
                         THEN get(find(param, "type"), "class", None)
                         ELSE UnknownType
  IN  [i \in 1..Len(params) |->
         [name |-> get(params[i], "name", None), type |-> typeOf(params[i])]]

\* ------------------------------------------------------ _parse_class_detail
empty_data ==
  [description |-> <<>>, extends |-> <<>>, implements |-> <<>>, tags |-> <<>>,
   properties |-> <<>>, actions |-> <<>>]

\* (a variant of the record below without the sentinel for an absent type)
PropertyRecordNoSentinel(prop) ==
  [name |-> get(prop, "name", None),
   type |-> IF find(prop, "type") # NoElement
              THEN get(find(prop, "type"), "class", None)
              ELSE None,
   flags |-> get(prop, "flags", ""),
   description |-> _clean_text(_get_full_content(prop, "description")),
   tags |-> _extract_tags(prop)]

PropertyRecord(prop) ==
  [name |-> get(prop, "name", None),
   type |-> IF find(prop, "type") # NoElement
              THEN get(find(prop, "type"), "class", None)
              ELSE UnknownType,
   flags |-> get(prop, "flags", ""),
   description |-> _clean_text(_get_full_content(prop, "description")),
   tags |-> _extract_tags(prop)]

ActionRecord(act) ==
  [name |-> get(act, "name", None),
   returnType |-> IF find2(act, "return", "type") # NoElement
                    THEN get(find2(act, "return", "type"), "class", None)
                    ELSE VoidType,
   flags |-> get(act, "flags", None),
   description |-> _clean_text(_get_full_content(act, "description")),
   parameters |-> _extract_params(act),
   tags |-> _extract_tags(act)]

ClassTypes(cls, outer) ==
  LET types == findall2(cls, outer, "type")
  IN  [i \in 1..Len(types) |-> get(types[i], "class", None)]

_parse_class_detail(doc) ==
  LET root == _safe_parse_xml(doc)
      cls == find(root, "class")
      props == findall(cls, "property")
      acts == findall(cls, "action")
  IN  IF root = NoElement THEN empty_data
      ELSE IF find(root, "package") # NoElement THEN empty_data
      ELSE IF cls = NoElement THEN empty_data
      ELSE [description |-> _clean_text(_get_full_content(cls, "description")),
            extends |-> ClassTypes(cls, "extends"),
            implements |-> ClassTypes(cls, "implements"),
            class_tags |-> _extract_tags(cls),
            properties |-> [i \in 1..Len(props) |-> PropertyRecord(props[i])],
            actions |-> [i \in 1..Len(acts) |-> ActionRecord(acts[i])]]

\* ====================================================== the pipeline's state
VARIABLES
  pc,            \* position of __main__ and of the stage that is running
  tmpExists,     \* whether config.tmp_docs exists on disk
  tmp,           \* the files under config.tmp_docs, each <<module dir, entry>>
  docs_jar,      \* Extractor.run: the archives rglob found
  jarIdx,        \* Extractor.run: position of the for loop
  count,         \* Extractor.run: archives extracted
  attempted,     \* Extractor.run: the archives handed to _extract_jar, in order
  console,       \* the failures the running stage has printed, in order
  njars,         \* the number printed by "extract N modules"
  docsPresent,   \* the class names that have a per-class document on disk
  faults,        \* exceptions raised so far inside Parser.run's loops
  faultLog,      \* where they were raised
  modules,       \* Parser.run: sorted module directories
  modIdx,        \* Parser.run: position of the module loop
  pkgIdx,        \* Parser.run: position of the package loop
  clsIdx,        \* Parser.run: position of the class loop
  search_index,  \* Parser.run: the accumulator
  module_data,   \* Parser.run: the module record under construction
  package_data,  \* Parser.run: the package record under construction
  moduleFiles,   \* <output>/modules/<alias>.json, by alias
  indexFile,     \* <output>/search_index.json
  fnName,        \* the helper a helper specification calls
  fnIn,          \* its argument
  fnOut          \* its result

pipeVars == <<pc, tmpExists, tmp, docs_jar, jarIdx, count, attempted, console,
              njars, docsPresent, faults, faultLog, modules, modIdx, pkgIdx,
              clsIdx, search_index, module_data, package_data, moduleFiles,
              indexFile>>
fnVars == <<fnName, fnIn, fnOut>>
vars == <<pipeVars, fnVars>>

\* ------------------------------------------------------------ the file system
\* Config.tmp_docs = Path("./tmp")
tmp_docs_name == "tmp"

ModuleDirs == <<"modA", "modB">>
ModuleSet == {ModuleDirs[i] : i \in 1..Len(ModuleDirs)}
Profile == "rt"

\* entries of an archive: the module index, the package directories (package
\* indexes and class documents), and an entry that is no .bajadoc
ModuleIndexEntry == "module-index.bajadoc"
PackageEntry == "package-index.bajadoc"
OtherEntry == "MANIFEST.MF"
EntryNames == {ModuleIndexEntry, PackageEntry, OtherEntry}

\* doc.endswith(".bajadoc")
IsBajadoc(entry) == entry # OtherEntry

\* an archive holds entries doc/<mod>/<entry>; fails tells whether opening it
\* or extracting from it raises
Jars == [mod : ModuleSet, entries : SUBSET EntryNames, fails : BOOLEAN]

JarLists == UNION {[1..n -> Jars] : n \in 0..MaxJars}

Extractable(jar) == {<<jar.mod, e>> : e \in {x \in jar.entries : IsBajadoc(x)}}

NoFile == [absent |-> TRUE]
NoData == [absent |-> TRUE]

\* module-index.bajadoc of a module directory
ModuleIndexDoc(m) ==
  Elem("bajadoc", <<>>, <<>>,
       <<Elem("module", <<<<"name", m>>, <<"runtimeProfile", Profile>>>>,
              <<>>, <<>>, <<>>)>>, <<>>)

Alias(name, profile) == name \o "-" \o profile
Aliases == {Alias(m, Profile) : m \in ModuleSet}

PkgName(p) == IF p = 1 THEN "pkg1" ELSE IF p = 2 THEN "pkg2" ELSE "pkg3"
ClassName(c) == IF c = 1 THEN "Foo" ELSE IF c = 2 THEN "Bar" ELSE "Baz"

\* the class entries of a package index: classes with an odd number carry a
\* description, followed by the white space of an indented file
ClassEntry(c) ==
  Elem("class", <<<<"name", ClassName(c)>>>>, <<>>,
       IF c % 2 = 1
         THEN <<Elem("description", <<>>, <<"t", " ", "&", "t">>, <<>>, <<NL>>)>>
         ELSE <<>>,
       <<NL>>)

PackageIndexDoc(p) ==
  Elem("bajadoc", <<>>, <<>>,
       <<Elem("package", <<<<"name", PkgName(p)>>>>, <<>>,
              [c \in 1..NumClasses |-> ClassEntry(c)], <<>>)>>, <<>>)

\* the per-class document of class c, where there is one
ClassDoc(c) ==
  Doc(TRUE, <<>>, TRUE,
      Elem("bajadoc", <<>>, <<>>,
           <<Elem("class", <<<<"name", ClassName(c)>>>>, <<>>,
                  (IF c % 2 = 0
                     THEN <<Elem("description", <<>>, <<"t", "t">>, <<>>, <<>>)>>
                     ELSE <<>>)
                  \o <<Elem("property", <<<<"name", "out">>>>, <<>>, <<>>, <<>>)>>,
                  <<>>)>>, <<>>))

\* ================================================================== Extractor
\* the state after  config = Config(); extractor = Extractor(config);
\* parser = Parser(config):  Config.__init__ has created ./tmp
PipeIdle ==
  /\ tmp = {} /\ docs_jar = <<>> /\ jarIdx = 0 /\ count = 0
  /\ attempted = <<>> /\ console = <<>> /\ njars = 0
  /\ faults = 0 /\ faultLog = {}
  /\ modules = <<>> /\ modIdx = 0 /\ pkgIdx = 0 /\ clsIdx = 0
  /\ search_index = <<>> /\ module_data = NoData /\ package_data = NoData
  /\ moduleFiles = [a \in Aliases |-> NoFile] /\ indexFile = NoFile

FnIdle == fnName = "none" /\ fnIn = <<>> /\ fnOut = <<>>

Init ==
  /\ pc = "ExtractorRun"
  /\ tmpExists = TRUE
  /\ docsPresent \in SUBSET (1..NumClasses)
  /\ PipeIdle
  /\ FnIdle

parserFrame == <<faults, faultLog, modules, modIdx, pkgIdx, clsIdx, search_index,
                 module_data, package_data, moduleFiles, indexFile>>

\* Extractor.run up to the for loop: Path objects are truthy, so the test of
\* modules_dir never returns
ExtractorRun ==
  /\ pc = "ExtractorRun"
  /\ \E jars \in JarLists :
       /\ docs_jar' = jars
       /\ njars' = Len(jars)
       /\ IF jars = <<>>
            THEN pc' = "ExtractorReturned" /\ jarIdx' = 0
            ELSE pc' = "ExtractLoop" /\ jarIdx' = 1
  /\ count' = 0
  /\ UNCHANGED <<tmpExists, tmp, attempted, console, docsPresent, parserFrame, fnVars>>

\* _extract_jar on an archive that opens and extracts: every .bajadoc entry
_extract_jar(jar) == tmp' = tmp \cup Extractable(jar)

\* _extract_jar on an archive that raises: when it cannot be opened nothing
\* is extracted, otherwise the entries before the one that fails are
ExtractJarRaises(jar) ==
  \E part \in SUBSET Extractable(jar) :
    /\ part # Extractable(jar) \/ Extractable(jar) = {}
    /\ tmp' = tmp \cup part

\* (a variant of the handler below that lets the exception escape)
ExtractExceptRaises ==
  /\ pc' = "ExtractorRaised"
  /\ UNCHANGED <<console, count, jarIdx>>

\* except Exception as e: print(f"can't extract jar ({jar_path.name}) : {e}")
ExtractExcept ==
  /\ console' = Append(console, jarIdx)
  /\ count' = count
  /\ jarIdx' = jarIdx + 1
  /\ pc' = pc

\* one iteration of  for jar_path in docs_jar
ExtractJar ==
  /\ pc = "ExtractLoop"
  /\ jarIdx <= Len(docs_jar)
  /\ attempted' = Append(attempted, jarIdx)
  /\ IF docs_jar[jarIdx].fails
       THEN ExtractJarRaises(docs_jar[jarIdx]) /\ ExtractExcept
       ELSE /\ _extract_jar(docs_jar[jarIdx])
            /\ count' = count + 1
            /\ jarIdx' = jarIdx + 1
            /\ UNCHANGED <<pc, console>>
  /\ UNCHANGED <<tmpExists, docs_jar, njars, docsPresent, parserFrame, fnVars>>

ExtractorReturn ==
  /\ pc = "ExtractLoop"
  /\ jarIdx > Len(docs_jar)
  /\ pc' = "ExtractorReturned"
  /\ UNCHANGED <<tmpExists, tmp, docs_jar, jarIdx, count, attempted, console, njars,
                 docsPresent, parserFrame, fnVars>>

\* ===================================================================== Parser
extractorFrame == <<docs_jar, jarIdx, count, attempted, njars>>

HasDir(m) == \E e \in EntryNames : <<m, e>> \in tmp
HasModuleIndex(m) == <<m, ModuleIndexEntry>> \in tmp
\* the package-index documents rglob finds beneath a module directory
NPkgs(m) == IF <<m, PackageEntry>> \in tmp THEN NumPkgs ELSE 0

\* sorted([d for d in (tmp_docs / "doc").iterdir() if d.is_dir()])
SortedModules == SelectSeq(ModuleDirs, HasDir)

\* Parser.run up to the module loop.  Extractor.run has returned: its frame
\* is gone, and console starts to hold what Parser.run prints.
ParserRun ==
  /\ pc = "ExtractorReturned"
  /\ docs_jar' = <<>> /\ jarIdx' = 0 /\ count' = 0 /\ attempted' = <<>>
  /\ console' = <<>>
  /\ IF ~tmpExists
       THEN pc' = "ParserReturned" /\ UNCHANGED <<modules, modIdx>>
     ELSE IF tmp = {}
       \* tmp/doc does not exist: iterdir raises FileNotFoundError
       THEN pc' = "ParserRaised" /\ UNCHANGED <<modules, modIdx>>
     ELSE pc' = "ModuleLoop" /\ modules' = SortedModules /\ modIdx' = 1
  /\ search_index' = <<>>
  /\ UNCHANGED <<tmpExists, tmp, njars, docsPresent, faults, faultLog, pkgIdx, clsIdx,
                 module_data, package_data, moduleFiles, indexFile, fnVars>>

\* an exception is raised at the point `where`
Fault(where) ==
  /\ faults < MaxFaults
  /\ faults' = faults + 1
  /\ faultLog' = faultLog \cup {where}

NoFault == UNCHANGED <<faults, faultLog>>

\* except Exception as e: print(f"ignored module {module_dir.name} : {e}")
ModuleExcept ==
  /\ console' = Append(console, <<"ignored module", modules[modIdx]>>)
  /\ modIdx' = modIdx + 1
  /\ pc' = "ModuleLoop"

\* (a variant of the handler below that leaves the package loop)
PackageExceptAbortsModule ==
  /\ console' = Append(console, <<"package error", modules[modIdx], pkgIdx>>)
  /\ pkgIdx' = NPkgs(modules[modIdx]) + 1
  /\ pc' = "PackageLoop"

\* except Exception as e: print(f"package error {pkg_file} : {e}")
PackageExcept ==
  /\ console' = Append(console, <<"package error", modules[modIdx], pkgIdx>>)
  /\ pkgIdx' = pkgIdx + 1
  /\ pc' = "PackageLoop"

\* one iteration of  for module_dir in modules, up to the package loop
ModuleStep ==
  /\ pc = "ModuleLoop"
  /\ modIdx <= Len(modules)
  /\ LET m == modules[modIdx]
         module_root == find(ModuleIndexDoc(m), "module")
         name == get(module_root, "name", None)
         profile == get(module_root, "runtimeProfile", None)
     IN  IF ~HasModuleIndex(m)
           THEN /\ modIdx' = modIdx + 1
                /\ NoFault
                /\ UNCHANGED <<pc, console, module_data, pkgIdx>>
           ELSE \/ /\ Fault(<<"module", m>>)
                   /\ ModuleExcept
                   /\ UNCHANGED <<module_data, pkgIdx>>
                \/ /\ NoFault
                   /\ module_data' = [name |-> name, profile |-> profile,
                                      packages |-> <<>>,
                                      alias |-> Alias(name, profile)]
                   /\ pkgIdx' = 1
                   /\ pc' = "PackageLoop"
                   /\ UNCHANGED <<console, modIdx>>
  /\ UNCHANGED <<tmpExists, tmp, extractorFrame, docsPresent, modules, clsIdx,
                 search_index, package_data, moduleFiles, indexFile, fnVars>>

\* one iteration of  for pkg_file in module_dir.rglob(...), up to the class loop
PackageStep ==
  /\ pc = "PackageLoop"
  /\ pkgIdx <= NPkgs(modules[modIdx])
  /\ LET pkg_root == find(PackageIndexDoc(pkgIdx), "package")
     IN  \/ /\ Fault(<<"package", modules[modIdx], pkgIdx>>)
            /\ PackageExcept
            /\ UNCHANGED <<package_data, clsIdx>>
         \/ /\ NoFault
            /\ package_data' = [name |-> get(pkg_root, "name", None), classes |-> <<>>]
            /\ clsIdx' = 1
            /\ pc' = "ClassLoop"
            /\ UNCHANGED <<console, pkgIdx>>
  /\ UNCHANGED <<tmpExists, tmp, extractorFrame, docsPresent, modules, modIdx,
                 search_index, module_data, moduleFiles, indexFile, fnVars>>

\* "summary": (summary[:100] + "...") if summary else ""
IndexSummary(summary) ==
  IF summary # <<>>
    THEN SubSeq(summary, 1, Min(TruncLen, Len(summary))) \o Ellipsis
    ELSE <<>>

SearchEntry(cls_name, mod_alias, pkg_name, summary) ==
  [name |-> cls_name, module |-> mod_alias, package |-> pkg_name,
   summary |-> IndexSummary(summary)]

\* details = self._parse_class_detail(cls_doc_path) if cls_doc_path else {}
\* if not details.get("description"): details["description"] = summary
Details(hasDoc, doc, summary) ==
  LET details == IF hasDoc THEN _parse_class_detail(doc) ELSE <<>>
  IN  IF "description" \in DOMAIN details /\ details["description"] # <<>>
        THEN details
        ELSE [k \in DOMAIN details \cup {"description"} |->
                IF k = "description" THEN summary ELSE details[k]]

\* one iteration of  for cls_elem in pkg_root.findall("class")
ClassStep ==
  /\ pc = "ClassLoop"
  /\ clsIdx <= NumClasses
  /\ LET m == modules[modIdx]
         pkg_root == find(PackageIndexDoc(pkgIdx), "package")
         cls_elem == findall(pkg_root, "class")[clsIdx]
         cls_name == get(cls_elem, "name", None)
         summary == _clean_text(_get_full_content(cls_elem, "description"))
         details == Details(clsIdx \in docsPresent, ClassDoc(clsIdx), summary)
     IN  /\ search_index' = Append(search_index,
                                   SearchEntry(cls_name, module_data.alias,
                                               package_data.name, summary))
         /\ \/ \* the lookup of the per-class document raises
               /\ Fault(<<"class", m, pkgIdx, clsIdx>>)
               /\ PackageExcept
               /\ UNCHANGED <<package_data, clsIdx>>
            \/ /\ NoFault
               /\ package_data' =
                    [package_data EXCEPT !.classes =
                       Append(@, [name |-> cls_name, summary |-> summary,
                                  details |-> details])]
               /\ clsIdx' = clsIdx + 1
               /\ UNCHANGED <<pc, console, pkgIdx>>
  /\ UNCHANGED <<tmpExists, tmp, extractorFrame, docsPresent, modules, modIdx,
                 module_data, moduleFiles, indexFile, fnVars>>

\* module_data["packages"].append(package_data), after the class loop
PackageDone ==
  /\ pc = "ClassLoop"
  /\ clsIdx > NumClasses
  /\ module_data' = [module_data EXCEPT !.packages = Append(@, package_data)]
  /\ pkgIdx' = pkgIdx + 1
  /\ pc' = "PackageLoop"
  /\ UNCHANGED <<tmpExists, tmp, extractorFrame, console, docsPresent, faults, faultLog,
                 modules, modIdx, clsIdx, search_index, package_data, moduleFiles,
                 indexFile, fnVars>>

\* json.dump(module_data, f) into modules/<alias>.json, after the package loop
ModuleWrite ==
  /\ pc = "PackageLoop"
  /\ pkgIdx > NPkgs(modules[modIdx])
  /\ \/ /\ Fault(<<"write", modules[modIdx]>>)
        /\ ModuleExcept
        /\ UNCHANGED moduleFiles
     \/ /\ NoFault
        /\ moduleFiles' = [moduleFiles EXCEPT ![module_data.alias] = module_data]
        /\ modIdx' = modIdx + 1
        /\ pc' = "ModuleLoop"
        /\ UNCHANGED console
  /\ UNCHANGED <<tmpExists, tmp, extractorFrame, docsPresent, modules, pkgIdx, clsIdx,
                 search_index, module_data, package_data, indexFile, fnVars>>

\* json.dump(search_index, f) into search_index.json, after the module loop
IndexWrite ==
  /\ pc = "ModuleLoop"
  /\ modIdx > Len(modules)
  /\ indexFile' = [entries |-> search_index]
  /\ pc' = "ParserReturned"
  /\ UNCHANGED <<tmpExists, tmp, extractorFrame, console, docsPresent, faults, faultLog,
                 modules, modIdx, pkgIdx, clsIdx, search_index, module_data,
                 package_data, moduleFiles, fnVars>>

\* config.cleanup()
cleanup ==
  /\ pc = "ParserReturned"
  /\ IF tmpExists /\ tmp_docs_name = "tmp"
       THEN tmpExists' = FALSE /\ tmp' = {}
       ELSE UNCHANGED <<tmpExists, tmp>>
  /\ pc' = "Done"
  /\ UNCHANGED <<extractorFrame, console, docsPresent, parserFrame, fnVars>>

Next ==
  \/ ExtractorRun \/ ExtractJar \/ ExtractorReturn
  \/ ParserRun \/ ModuleStep \/ PackageStep \/ ClassStep \/ PackageDone
  \/ ModuleWrite \/ IndexWrite
  \/ cleanup

Spec == Init /\ [][Next]_vars

\* =========================================================== helper calls
\* The specifications below call one helper of the Parser on an argument
\* drawn from a bounded set; the pipeline's variables stay as constructed.
TokSeqs(A, n) == UNION {[1..k -> A] : k \in 0..n}

HelperInit(name, inputs) ==
  /\ pc = "Call"
  /\ tmpExists = TRUE
  /\ docsPresent = {}
  /\ PipeIdle
  /\ fnName = name
  /\ fnIn \in inputs
  /\ fnOut = <<>>

HelperCall(name, result) ==
  /\ pc = "Call"
  /\ fnName = name
  /\ fnOut' = result
  /\ pc' = "Returned"
  /\ UNCHANGED <<tmpExists, tmp, extractorFrame, console, docsPresent, parserFrame,
                 fnName, fnIn>>

\* ---- _clean_text and the pre-pass of _safe_parse_xml
RefAlphabet == {"&", "#", "x", "0", ";", "amp", "t"}

SeeWrap(label) ==
  <<"<", "see", " ", "ref", "=", DQ, "T", DQ, ">">> \o label \o <<"<", "/", "see", ">">>

CleanInputs ==
  TokSeqs(RefAlphabet, MaxLen) \cup {SeeWrap(l) : l \in TokSeqs(RefAlphabet, 2)}

RawTexts == TokSeqs({"&", "#", "x", "0", ";"}, MaxLen - 1)

RawDocs ==
  {Doc(TRUE, raw, wf, Elem("bajadoc", <<>>, <<>>, <<>>, <<>>)) :
     raw \in RawTexts, wf \in BOOLEAN}

CleanTextCall == HelperCall("_clean_text", _clean_text(fnIn))

SafeParseCall == HelperCall("_safe_parse_xml", _safe_parse_xml(fnIn))

InitClean ==
  \/ HelperInit("_clean_text", CleanInputs)
  \/ HelperInit("_safe_parse_xml", RawDocs)

NextClean == CleanTextCall \/ SafeParseCall

SpecClean == InitClean /\ [][NextClean]_vars

\* ---- _get_full_content
ContentTexts == TokSeqs({"t", "&"}, 1)

NestedSee ==
  {<<>>} \cup {<<Elem("see", <<<<"ref", "T">>>>, t, <<>>, tl)>> :
                 t \in ContentTexts, tl \in ContentTexts}

ContentChildren ==
  {Elem("description", <<>>, t, k, tl) :
     t \in ContentTexts, k \in NestedSee, tl \in TokSeqs({" ", NL, "t"}, MaxTail)}

ContentInputs ==
  {Elem("class", <<>>, <<>>, kids, <<>>) :
     kids \in {<<>>} \cup {<<c>> : c \in ContentChildren}}

GetFullContentCall ==
  HelperCall("_get_full_content", _get_full_content(fnIn, "description"))

InitContent == HelperInit("_get_full_content", ContentInputs)

NextContent == GetFullContentCall

SpecContent == InitContent /\ [][NextContent]_vars

\* ---- _parse_class_detail
TypeNodes == {<<>>, <<Elem("type", <<<<"class", "T">>>>, <<>>, <<>>, <<>>)>>}

PropertyNodes ==
  {Elem("property", <<<<"name", "out">>>>, <<>>, ty, <<>>) : ty \in TypeNodes}

ParameterNodes ==
  {<<>>} \cup {<<Elem("parameter", <<<<"name", "arg">>>>, <<>>, ty, <<>>)>> :
                 ty \in TypeNodes}

ReturnNodes == {<<>>} \cup {<<Elem("return", <<>>, <<>>, ty, <<>>)>> : ty \in TypeNodes}

ActionNodes ==
  {Elem("action", <<<<"name", "run">>, <<"flags", "a">>>>, <<>>, r \o ps, <<>>) :
     r \in ReturnNodes, ps \in ParameterNodes}

DescriptionNodes ==
  {<<>>, <<Elem("description", <<>>, <<"t">>, <<>>, <<>>)>>}

ClassNodes ==
  {<<>>} \cup {<<Elem("class", <<<<"name", "Foo">>>>, <<>>, d \o props \o acts, <<>>)>> :
                 d \in DescriptionNodes,
                 props \in TokSeqs(PropertyNodes, MaxMembers),
                 acts \in TokSeqs(ActionNodes, MaxMembers)}

PackageNodes == {<<>>, <<Elem("package", <<<<"name", "pkg1">>>>, <<>>, <<>>, <<>>)>>}

DetailDocs ==
  {Doc(readable, raw, wf, Elem("bajadoc", <<>>, <<>>, pk \o cl, <<>>)) :
     readable \in BOOLEAN,
     raw \in {<<>>, <<"&", "#", "0", ";">>, <<"&", "#", "0">>},
     wf \in BOOLEAN, pk \in PackageNodes, cl \in ClassNodes}

ParseClassDetailCall ==
  HelperCall("_parse_class_detail", _parse_class_detail(fnIn))

InitDetail == HelperInit("_parse_class_detail", DetailDocs)

NextDetail == ParseClassDetailCall

SpecDetail == InitDetail /\ [][NextDetail]_vars

\* ---- the search-index record of a class
Summaries == {[i \in 1..n |-> "t"] : n \in 0..MaxSummaryLen}

SearchEntryCall ==
  HelperCall("SearchEntry", SearchEntry("Foo", Alias("modA", Profile), "pkg1", fnIn))

InitSummary == HelperInit("SearchEntry", Summaries)

NextSummary == SearchEntryCall

SpecSummary == InitSummary /\ [][NextSummary]_vars

\* ===================================================================== claims
Written(file) == "absent" \notin DOMAIN file

\* the class entries named cls_name under package pkg_name in a module file
ClassEntries(file, pkg_name, cls_name) ==
  {<<p, c>> \in (1..NumPkgs) \X (1..NumClasses) :
     /\ p <= Len(file.packages)
     /\ file.packages[p].name = pkg_name
     /\ c <= Len(file.packages[p].classes)
     /\ file.packages[p].classes[c].name = cls_name}

\* C1 (as claimed): once Parser.run has written the search index, every one
\* of its entries has exactly one class entry of the same name, under the
\* same package, in the JSON file of the module its alias names, whatever
\* failed during the run.
C1_IndexEntriesHaveClassEntry ==
  (pc = "ParserReturned" /\ Written(indexFile)) =>
    \A i \in 1..Len(indexFile.entries) :
      LET e == indexFile.entries[i]
      IN  /\ Written(moduleFiles[e.module])
          /\ Cardinality(ClassEntries(moduleFiles[e.module], e.package, e.name)) = 1

\* ---- C2
ModuleFailed(m) == <<"module", m>> \in faultLog \/ <<"write", m>> \in faultLog

\* the classes of package p of module m that reached search_index.append:
\* all of them, or those up to the one whose document lookup raised
ClassesIndexed(m, p) ==
  IF <<"package", m, p>> \in faultLog THEN {}
  ELSE {c \in 1..NumClasses :
          \A b \in 1..NumClasses : b < c => <<"class", m, p, b>> \notin faultLog}

PackageFailed(m, p) ==
  \/ <<"package", m, p>> \in faultLog
  \/ \E c \in 1..NumClasses : <<"class", m, p, c>> \in faultLog

\* the packages of module m, in order, that ran to the end
PackagesKept(m) ==
  SelectSeq([p \in 1..NPkgs(m) |-> p], LAMBDA p : ~PackageFailed(m, p))

\* the <<module, package, class>> triples the run reached, in order
ExpectedTriples ==
  Flatten([i \in 1..Len(modules) |->
    IF ~HasModuleIndex(modules[i]) \/ <<"module", modules[i]>> \in faultLog
      THEN <<>>
      ELSE Flatten([p \in 1..NPkgs(modules[i]) |->
             SelectSeq([c \in 1..NumClasses |-> <<modules[i], p, c>>],
                       LAMBDA t : t[3] \in ClassesIndexed(modules[i], p))])])

\* C2: when Parser.run returns after its module loop, (1) the search-index
\* file is written and holds one entry for every class reached before or
\* after any failure, in order: a failing package keeps the entries
\* accumulated before it and its sibling packages are still processed;
\* (2) every module that did not fail itself is written with exactly its
\* packages that did not fail, also when an earlier module failed; (3) a
\* module that failed is not written.
C2_FailuresAreIsolated ==
  (pc = "ParserReturned" /\ modIdx > 0) =>
    LET expected == ExpectedTriples
    IN  /\ Written(indexFile)
        /\ indexFile.entries = search_index
        /\ Len(search_index) = Len(expected)
        /\ \A i \in 1..Len(expected) :
             LET t == expected[i]
                 e == search_index[i]
             IN  /\ e.module = Alias(t[1], Profile)
                 /\ e.package = PkgName(t[2])
                 /\ e.name = ClassName(t[3])
        /\ \A i \in 1..Len(modules) :
             LET m == modules[i]
                 file == moduleFiles[Alias(m, Profile)]
                 kept == PackagesKept(m)
             IN  IF HasModuleIndex(m) /\ ~ModuleFailed(m)
                   THEN /\ Written(file)
                        /\ Len(file.packages) = Len(kept)
                        /\ \A k \in 1..Len(kept) :
                             file.packages[k].name = PkgName(kept[k])
                   ELSE ~Written(file)

C2_Witness ==
  /\ pc = "ParserReturned"
  /\ <<"class", "modA", 1, 1>> \in faultLog
  /\ <<"write", "modA">> \in faultLog
  /\ Written(moduleFiles[Alias("modB", Profile)])
  /\ Len(moduleFiles[Alias("modB", Profile)].packages) = NumPkgs
  /\ Len(indexFile.entries) = 1 + (NumPkgs - 1) * NumClasses + NumPkgs * NumClasses

\* C3 (as claimed): when the root holds no matching archive, the run does not
\* end in an exception that escapes Parser.run, so cleanup is reached.
C3_NoArchiveRunDoesNotRaise ==
  (njars = 0 /\ tmp = {}) => pc # "ParserRaised"

\* C4 (as claimed): a class whose per-class document is missing appears in
\* the module JSON with details.description equal to its summary and with
\* the list fields extends, implements, properties, actions and tags all
\* present and empty.
C4_MissingDocGivesEmptyShell ==
  \A a \in Aliases :
    Written(moduleFiles[a]) =>
      \A p \in 1..Len(moduleFiles[a].packages) :
        \A c \in 1..Len(moduleFiles[a].packages[p].classes) :
          LET entry == moduleFiles[a].packages[p].classes[c]
          IN  c \notin docsPresent =>
                /\ entry.details.description = entry.summary
                /\ {"extends", "implements", "properties", "actions", "tags"}
                     \subseteq DOMAIN entry.details
                /\ \A k \in {"extends", "implements", "properties", "actions", "tags"} :
                     entry.details[k] = <<>>

\* C5 (as claimed): the summary of a search-index entry is empty when the
\* class has no summary text; otherwise it is the summary cut to at most 100
\* characters, followed by the 3-character marker when the summary is longer
\* than 100 characters and not followed by it when the summary fits; its
\* length never exceeds 103.
C5_SummaryMarkedOnlyWhenCut ==
  (pc = "Returned" /\ fnName = "SearchEntry") =>
    /\ fnIn = <<>> => fnOut.summary = <<>>
    /\ (fnIn # <<>> /\ Len(fnIn) <= TruncLen) => fnOut.summary = fnIn
    /\ Len(fnIn) > TruncLen => fnOut.summary = SubSeq(fnIn, 1, TruncLen) \o Ellipsis
    /\ Len(fnOut.summary) <= TruncLen + 3

\* C6 (as claimed): at the end of every run, whatever the outcome of the two
\* stages, the working directory is gone when it is named "tmp" and is left
\* in place when it has another name.
C6_RunEndsWithTmpRemoved ==
  pc \in {"Done", "ExtractorRaised", "ParserRaised"} =>
    IF tmp_docs_name = "tmp" THEN ~tmpExists ELSE tmpExists

\* C7: Extractor.run never raises, and when it returns it has handed every
\* archive of the list to _extract_jar exactly once, in order, has printed
\* the name of each archive that failed and of no other, has extracted every
\* .bajadoc entry of each archive that did not fail, and has counted those
\* archives.
C7_EveryArchiveAttempted ==
  /\ pc # "ExtractorRaised"
  /\ pc = "ExtractorReturned" =>
       /\ attempted = [i \in 1..Len(docs_jar) |-> i]
       /\ console = SelectSeq(attempted, LAMBDA i : docs_jar[i].fails)
       /\ \A i \in 1..Len(docs_jar) :
            ~docs_jar[i].fails => Extractable(docs_jar[i]) \subseteq tmp
       /\ count = Cardinality({i \in 1..Len(docs_jar) : ~docs_jar[i].fails})

C7_Witness ==
  /\ pc = "ExtractorReturned"
  /\ Len(docs_jar) = MaxJars
  /\ docs_jar[1].fails
  /\ ~docs_jar[MaxJars].fails
  /\ Extractable(docs_jar[MaxJars]) # {}
  /\ console = <<1>>

\* C8 (as claimed): _clean_text renders no character for a reference to
\* codepoint zero: on a text whose every "&" starts such a reference (&#0;,
\* &#x0;, with any number of zeros) the result holds no U+FFFD; and
\* _safe_parse_xml strips the same references before it parses, so a
\* well-formed readable document whose raw text holds only such references
\* is parsed.
C8_ZeroReferencesVanish ==
  /\ (pc = "Returned" /\ fnName = "_clean_text"
        /\ \A k \in 1..Len(ZeroStrip(fnIn)) : ZeroStrip(fnIn)[k] # "&")
       => \A k \in 1..Len(fnOut) : fnOut[k] # UFFFD
  /\ (pc = "Returned" /\ fnName = "_safe_parse_xml" /\ fnIn.wellformed
        /\ \A k \in 1..Len(ZeroStrip(fnIn.raw)) : ZeroStrip(fnIn.raw)[k] # "&")
       => fnOut = fnIn.root

\* C9 (as claimed): _get_full_content returns the empty string when the
\* element has no child of that name, and otherwise exactly what lies between
\* the child's opening and closing tags: never the child's own tags, never
\* the text that follows its closing tag.
C9_ContentIsInnerMarkup ==
  (pc = "Returned" /\ fnName = "_get_full_content") =>
    IF find(fnIn, "description") = NoElement
      THEN fnOut = <<>>
      ELSE fnOut = InnerMarkup(find(fnIn, "description"))

\* ---- C10
IsShellCase(doc) ==
  \/ ~doc.readable
  \/ ~Parses(ZeroStrip(doc.raw), doc.wellformed)
  \/ find(doc.root, "package") # NoElement
  \/ find(doc.root, "class") = NoElement

\* the record _parse_class_detail returns outside the shell cases carries the
\* members of the class, an absent type replaced by `unknown` and an absent
\* return type by "void"
Populated(doc, out, unknown) ==
  LET cls == find(doc.root, "class")
      props == findall(cls, "property")
      acts == findall(cls, "action")
  IN  /\ DOMAIN out = {"description", "extends", "implements", "class_tags",
                       "properties", "actions"}
      /\ Len(out.properties) = Len(props)
      /\ Len(out.actions) = Len(acts)
      /\ \A i \in 1..Len(props) :
           out.properties[i].type =
             IF find(props[i], "type") = NoElement THEN unknown ELSE "T"
      /\ \A i \in 1..Len(acts) :
           /\ out.actions[i].returnType =
                IF find2(acts[i], "return", "type") = NoElement THEN "void" ELSE "T"
           /\ LET ps == findall(acts[i], "parameter")
              IN  /\ Len(out.actions[i].parameters) = Len(ps)
                  /\ \A j \in 1..Len(ps) :
                       out.actions[i].parameters[j].type =
                         IF find(ps[j], "type") = NoElement THEN unknown ELSE "T"

DetailContract(unknown) ==
  (pc = "Returned" /\ fnName = "_parse_class_detail") =>
    IF IsShellCase(fnIn)
      THEN fnOut = [description |-> <<>>, extends |-> <<>>, implements |-> <<>>,
                    tags |-> <<>>, properties |-> <<>>, actions |-> <<>>]
      ELSE Populated(fnIn, fnOut, unknown)

====
